---- MODULE Spec2Model ----
(***************************************************************************)
(* Model of the cache / poll service / provider pipeline of               *)
(* cypher-interactive:                                                     *)
(*   AccountInfoService --insert--> AccountsCache --broadcast(Pubkey)-->   *)
(*   providers --broadcast(typed value)--> CypherContext / Handler         *)
(* Every tokio task is a process; one action is one step between two       *)
(* points where another task can observe shared state.                     *)
(***************************************************************************)
EXTENDS Integers, Sequences, FiniteSets, TLC

\* ------------------------------------------------------------------ bounds
\* capacity of every broadcast channel (u16::MAX in the source, scaled down)
ChannelCapacity == 3
\* addresses per get_multiple_accounts call (100 in the source, scaled down)
BatchSize == 2
\* replay cycles explored while the history variables are recorded
MaxCycles == 2
\* slots an RPC response can report
MaxSlot == 2
\* ledger changes in one run
MaxChanges == 1
\* failed RPC calls in one run
MaxErrs == 1
\* longest watch-list the batching is computed for
MaxKeys == 5
\* the depth cap process_updates passes to get_depth (25 in the source, scaled
\* down)
Depth == 2
\* highest raw price of an order on a slab page
MaxPrice == 3
\* most leaves on a slab page
MaxLeaves == 4
\* hashes the ledger can report as its latest blockhash
MaxHash == 2

\* ------------------------------------------------------- addresses and data
\* Option::None of a record-valued Option
None == [none |-> TRUE]
\* no key in hand
NoKey == "-"

\* the watch-list handed to AccountInfoService::new (ais_pks), in order
Keys == <<"bids", "oo", "user">>
Addresses == {Keys[i] : i \in 1..Len(Keys)}

cypher_user_pk == "user"

\* the markets start_services builds a MarketContext, an OrderBookContext and a
\* Handler for, in order; the watch-list above is scaled down to the user
\* account and to two accounts of the first market
market_contexts == <<[dex_market_pk |-> "mkt", open_orders_pk |-> "oo"],
                     [dex_market_pk |-> "mkt2", open_orders_pk |-> "oo2"]>>

\* open_orders_pks.push(open_orders_pk), once per market
open_orders_pks == [i \in 1..Len(market_contexts) |-> market_contexts[i].open_orders_pk]

\* OrderBookContext entries given to OrderBookProvider::new, one per market
books_keys == <<[market |-> "mkt", bids |-> "bids", asks |-> "asks",
                 coin_lot_size |-> 1, pc_lot_size |-> 1],
                [market |-> "mkt2", bids |-> "bids2", asks |-> "asks2",
                 coin_lot_size |-> 1, pc_lot_size |-> 1]>>

\* variant: the OrderBook of every market has been created
books_created == [i \in 1..Len(books_keys) |-> [market |-> books_keys[i].market]]

\* OrderBookProvider.books: Vec::new() in the constructor, never pushed to
books == <<>>

\* Pubkey::default()
PubkeyDefault == "default"

\* OrderBook::default(), the value Handler::new stores in Handler.orderbook
OrderBookDefault == [market |-> PubkeyDefault, bids |-> <<>>, asks |-> <<>>]

\* Hash::default() and the hashes the ledger reports
HashDefault == 0
Hashes == 1..MaxHash

\* a page without leaves
NoSlab == [leaves |-> {}, pc_lot_size |-> 1, coin_lot_size |-> 1]

Providers == {"cap", "oop", "obp"}
Slots == 1..MaxSlot

\* raw account data: the 8 byte discriminator and the bytes after it
UserDiscriminator == "CypherUser"
Account(d, b) == [disc |-> d, body |-> b]

\* what the ledger can hold at an address (None: no account there)
LedgerValues(a) ==
    CASE a = "user" -> {Account(UserDiscriminator, 1), Account(UserDiscriminator, 2)}
      [] a = "oo"   -> {Account("serum", 1), Account("serum", 2)}
      [] OTHER      -> {None, Account("serum", 1)}

AccountState(acc, s, v) == [account |-> acc, slot |-> s, ver |-> v]

Min(a, b) == IF a < b THEN a ELSE b
Last(s) == s[Len(s)]
Front(s) == SubSeq(s, 1, Len(s) - 1)

VARIABLES
    remote,      \* the ledger: address -> account data or None
    map,         \* AccountsCache.map: address -> AccountState or None
    chanBuf,     \* values retained by the cache's broadcast channel
    backlog,     \* per receiver: values sent and not yet received
    aisPc,       \* AccountInfoService task position
    aisPhase,    \* "hydrate" (start_service's for loop) or "replay"
    aisFrom,     \* `from` of the batch in progress (0-based)
    infos,       \* update_infos: the response entries not yet popped
    respSlot,    \* res.context.slot of the response in hand
    aisKey,      \* key of the insert between map.insert and sender.send
    lastErr,     \* result of the last AccountsCache::insert
    aisGrace,    \* the signal is out and the replay future can still be
                 \* resumed once before select! polls shutdown.recv()
    pPc,         \* provider task position
    pKey,        \* the notification a provider received and is processing
    outBuf,      \* per provider: values retained by its own channel
    outBacklog,  \* per provider: values its consumer has not received
    ctxPc,       \* CypherContext task position
    cypher_user, \* CypherContext.cypher_user
    shutdown,    \* the shutdown signal has been broadcast
    exited,      \* main has returned: the runtime and its tasks are gone
    active,      \* the provider tasks the runtime polls in this run
    \* history variables
    track,       \* history is recorded (and the cycles are bounded)
    nChg,        \* ledger changes so far
    nErr,        \* failed RPC calls so far
    cycles,      \* replay cycles started
    nIns,        \* number of map.insert calls so far
    written,     \* per address: the record given to the last insert
    clean,       \* the current cycle saw no fetch error and no ledger change
    lagged,      \* per receiver: it has lost notifications
    insLog,      \* addresses of the completed inserts, in order
    rcvLog,      \* per provider: addresses received (until it lags)
    lastMsg,     \* per provider: the notification it processed last
    nPub,        \* per provider: number of Sender::send calls
    lastPub,     \* per provider: the value given to its last send
    batchLog,    \* the batches [from, to) fetched in the pass in progress,
                 \* or in the last pass until the next one fetches
    resp,        \* the response of the batch in hand, as it was returned
    afterStop,   \* fetch calls that returned after the shutdown signal
    sides,       \* per OrderBook of OrderBookProvider.books: its bids and asks
    lastSend,    \* per provider: the result of its last Sender::send
    hCtx,        \* the market_contexts entry of the Handler that is modelled
    hPc,         \* Handler task position
    open_orders, \* Handler.open_orders
    orderbook,   \* Handler.orderbook
    cmPc,        \* ChainMetaService task position
    recent_blockhash, \* ChainMetaService.recent_blockhash
    cmSlot,      \* ChainMetaService.slot
    cmRes,       \* the result of the last update_chain_meta call
    fetchedHash, \* the hash the last successful blockhash fetch returned
    slab,        \* a slab page and the lot sizes of its market
    obl,         \* the side and the levels Slab::get_depth returned for it
    newBook      \* the market OrderBook::new was last given, and what it returned

ledgerVars == <<remote, nChg>>
rpcVars == <<nErr>>
chanVars == <<chanBuf, backlog>>
aisVars == <<aisPc, aisPhase, aisFrom, infos, respSlot, aisKey, lastErr>>
fetchHist == <<batchLog, resp, afterStop>>
aisHist == <<cycles, nIns, insLog, written>>
provVars == <<pPc, pKey>>
rcvHist == <<lagged, rcvLog>>
outVars == <<outBuf, outBacklog, nPub, lastPub, lastMsg, sides, lastSend>>
ctxVars == <<ctxPc, cypher_user>>
runVars == <<active, track>>
handlerVars == <<hCtx, hPc, open_orders, orderbook>>
chainVars == <<cmPc, recent_blockhash, cmSlot, cmRes, fetchedHash>>
slabVars == <<slab, obl, newBook>>
\* what the steps of the poll service, the providers and the context leave alone
restVars == <<handlerVars, chainVars, slabVars>>

vars == <<ledgerVars, rpcVars, map, chanVars, aisVars, aisHist, clean,
          provVars, rcvHist, outVars, ctxVars, shutdown, runVars, aisGrace,
          exited, fetchHist, restVars>>

\* the background loops: the providers, the two services, the context and the
\* Handler
Loops == Providers \cup {"ais", "cm", "ctx", "handler"}

\* variant: the Handler subscribes in start(), after the signal may have been
\* sent
shutdown_subscribers_late == Loops \ {"handler"}

\* the loops that hold a Receiver of the shutdown channel when the signal can
\* be sent: start_services passes self.shutdown.subscribe() to every
\* constructor, before any task is spawned
shutdown_subscribers == Loops

\* a broadcast value is delivered to the receivers that exist when it is
\* sent, and waits in the channel until each of them has received it
Signalled(t) == shutdown /\ t \in shutdown_subscribers

\* the market the modelled Handler is built for (MarketContext.dex_market_pk)
\* and its open orders account (MarketContext.open_orders_pk)
dex_market_pk == market_contexts[hCtx].dex_market_pk
open_orders_pk == market_contexts[hCtx].open_orders_pk

\* ------------------------------------------------- tokio broadcast channel
\* Sender::send: the ring keeps the newest ChannelCapacity values
Retain(buf, v) ==
    LET s == Append(buf, v)
    IN IF Len(s) > ChannelCapacity THEN SubSeq(s, 2, Len(s)) ELSE s

\* a receiver more than ChannelCapacity behind has lost its oldest values
Behind(n) == Min(n + 1, ChannelCapacity + 1)

\* variant: the receiver is handed the newest value, not its oldest unread one
NextValueNewest(buf, n) == buf[Len(buf)]

\* the value the next Receiver::recv returns for a receiver n values behind
NextValue(buf, n) == buf[Len(buf) - n + 1]

\* ----------------------------------------------------------- AccountsCache
\* variant: a read that hides a record older than the newest slot
get_fresh(key) ==
    IF map[key] # None /\ map[key].slot < MaxSlot THEN None ELSE map[key]

\* AccountsCache::get
get(key) == map[key]

\* a provider's Receiver<Pubkey> lives in the provider, which is shared by the
\* InteractiveCli and the provider's task: main drops the InteractiveCli right
\* after it has sent the shutdown signal, so from then on the receiver lives
\* as long as the task; the runtime drops a task it never polled
TaskOver(p) == p \notin active \/ pPc[p] \in {"stopped", "panicked"}
rxAlive == [p \in Providers |-> ~(shutdown /\ TaskOver(p))]

\* Sender::send fails when no receiver is left
NoSubscribers == \A p \in Providers : ~rxAlive[p]

InitProgram ==
    /\ remote \in [Addresses -> UNION {LedgerValues(a) : a \in Addresses}]
    /\ \A a \in Addresses : remote[a] \in LedgerValues(a)
    /\ \A a \in Addresses : remote[a] \in {None, Account(UserDiscriminator, 1),
                                           Account("serum", 1)}
    /\ nChg = 0
    /\ nErr = 0
    /\ map = [a \in Addresses |-> None]
    /\ chanBuf = <<>>
    /\ backlog = [p \in Providers |-> 0]
    /\ aisPc = "fetch"
    /\ aisPhase = "hydrate"
    /\ aisFrom = 0
    /\ infos = <<>>
    /\ respSlot = 1
    /\ aisKey = NoKey
    /\ lastErr = "-"
    /\ pPc = [p \in Providers |-> "recv"]
    /\ pKey = [p \in Providers |-> None]
    /\ outBuf = [p \in Providers |-> <<>>]
    /\ outBacklog = [p \in Providers |-> 0]
    /\ ctxPc = "recv"
    /\ cypher_user = None
    /\ shutdown = FALSE
    /\ active \in {{p} : p \in Providers}
    /\ cycles = 0
    /\ nIns = 0
    /\ written = [a \in Addresses |-> None]
    /\ clean = FALSE
    /\ lagged = [p \in Providers |-> FALSE]
    /\ insLog = <<>>
    /\ rcvLog = [p \in Providers |-> <<>>]
    /\ lastMsg = [p \in Providers |-> None]
    /\ nPub = [p \in Providers |-> 0]
    /\ lastPub = [p \in Providers |-> None]
    /\ aisGrace = FALSE
    /\ exited = FALSE
    /\ batchLog = <<>>
    /\ resp = None
    /\ afterStop = 0
    /\ sides = [b \in 1..Len(books) |-> [bids |-> <<>>, asks |-> <<>>]]
    /\ lastSend = [p \in Providers |-> "-"]
    /\ hPc = "recv"
    /\ open_orders = None
    /\ orderbook = OrderBookDefault
    /\ cmPc = "hash"
    /\ recent_blockhash = HashDefault
    /\ cmSlot = 0
    /\ cmRes = "-"
    /\ fetchedHash = HashDefault

\* the program after construction, no slab page at hand
InitBase ==
    /\ InitProgram
    /\ slab = NoSlab
    /\ obl = None
    /\ newBook = None

\* the Handler of the first market is the one modelled
InitCommon ==
    /\ InitBase
    /\ hCtx = 1

Init == InitCommon /\ track = TRUE

\* ------------------------------------------------------------- the ledger
\* some transaction changes the account stored at address a
RemoteChange(a, v) ==
    /\ v # remote[a]
    /\ nChg < MaxChanges
    /\ nChg' = nChg + 1
    /\ remote' = [remote EXCEPT ![a] = v]
    /\ clean' = FALSE
    /\ UNCHANGED <<rpcVars, map, chanVars, aisVars, aisHist, provVars,
                   rcvHist, outVars, ctxVars, shutdown, runVars, aisGrace, exited,
                   fetchHist, restVars>>

\* ------------------------------------------------------ AccountInfoService
\* variant: the batch ends one address early
BatchToShort(from) == Min(Len(Keys), from + BatchSize) - 1

\* self.keys.len().min(i + 100)
BatchTo(from) == Min(Len(Keys), from + BatchSize)

\* res.value of get_multiple_accounts for &self.keys[from..to]
Response(from) == [j \in 1..(BatchTo(from) - from) |-> remote[Keys[from + j]]]

\* the `None => continue` arm of the while loop: entries without an account
\* are popped and dropped
RECURSIVE SkipNone(_)
SkipNone(s) ==
    IF s = <<>> THEN s
    ELSE IF Last(s) = None THEN SkipNone(Front(s)) ELSE s

\* variant: the next batch starts on the last address of the one before
NextFromOverlap(from) == from + BatchSize - 1

\* (0..len).step_by(100): the value of i after `from`
NextFrom(from) == from + BatchSize

\* the calls update_infos(i, n.min(i + 100)) the for loop makes over a
\* watch-list of n addresses, from index i on
RECURSIVE Batches(_, _)
Batches(n, i) ==
    IF i >= n THEN <<>>
    ELSE <<[from |-> i, to |-> Min(n, i + BatchSize)]>> \o Batches(n, NextFrom(i))

\* the for loops over (0..keys.len()).step_by(100): what follows a batch
NextBatch ==
    IF NextFrom(aisFrom) < Len(Keys)
    THEN /\ aisFrom' = NextFrom(aisFrom)
         /\ aisPc' = "fetch"
         /\ UNCHANGED <<aisPhase, cycles>>
    ELSE IF aisPhase = "hydrate"
    THEN \* start_service enters select!, update_infos_replay starts a cycle
         /\ aisPhase' = "replay"
         /\ aisFrom' = 0
         /\ aisPc' = "fetch"
         /\ cycles' = IF track THEN cycles + 1 ELSE cycles
    ELSE \* sleep(Duration::from_millis(500))
         /\ aisFrom' = 0
         /\ aisPc' = "sleep"
         /\ UNCHANGED <<aisPhase, cycles>>

\* the batch update_infos(from, to) is called with
Batch(from) == [from |-> from, to |-> BatchTo(from)]

\* history: the call for the batch at aisFrom has returned
LogFetch ==
    /\ batchLog' = IF ~track THEN batchLog
                   ELSE IF aisFrom = 0 THEN <<Batch(aisFrom)>>
                   ELSE Append(batchLog, Batch(aisFrom))
    /\ afterStop' = IF track /\ shutdown THEN afterStop + 1 ELSE afterStop

\* select! in start_service polls the replay future and shutdown.recv() on
\* every wake-up: once the signal is out the replay future is resumed at most
\* once more; the for loop of the hydration pass is not under the select!
Resumable == (aisPhase = "replay" /\ shutdown) => aisGrace

\* the RPC call of update_infos returns Ok
FetchOk ==
    /\ ~exited
    /\ aisPc = "fetch"
    /\ Resumable
    /\ aisGrace' = FALSE
    /\ LogFetch
    /\ resp' = IF track THEN [value |-> Response(aisFrom), base |-> nIns]
               ELSE resp
    /\ \E s \in Slots : respSlot' = s
    /\ infos' = Response(aisFrom)
    /\ aisPc' = "insert"
    /\ UNCHANGED <<ledgerVars, rpcVars, map, chanVars, aisPhase, aisFrom,
                   aisKey, lastErr, aisHist, clean, provVars, rcvHist, outVars,
                   ctxVars, shutdown, runVars, exited, restVars>>

\* variant: the replay loop unwraps the result as the hydration pass does
on_fetch_err_unwrap(phase) == "unwrap"

\* what the caller does with Err(e) of update_infos: start_service calls
\* .unwrap() on it, update_infos_replay assigns it to `_`
on_fetch_err(phase) == IF phase = "hydrate" THEN "unwrap" ELSE "drop"

\* the RPC call returns Err: start_service unwraps it, the replay loop drops it
FetchErr ==
    /\ ~exited
    /\ aisPc = "fetch"
    /\ Resumable
    /\ aisGrace' = FALSE
    /\ LogFetch
    /\ UNCHANGED resp
    /\ nErr < MaxErrs
    /\ nErr' = nErr + 1
    /\ IF on_fetch_err(aisPhase) = "unwrap"
       THEN /\ aisPc' = "panicked"
            /\ UNCHANGED <<aisPhase, aisFrom, cycles, clean>>
       ELSE /\ NextBatch
            /\ clean' = FALSE
    /\ UNCHANGED <<ledgerVars, map, chanVars, infos, respSlot, aisKey,
                   lastErr, nIns, insLog, written, provVars, rcvHist, outVars,
                   ctxVars, shutdown, runVars, exited, restVars>>

\* variant: the insert drops the records of the other addresses
map_insert_evicting(m, key, data) ==
    [a \in DOMAIN m |-> IF a = key THEN data ELSE None]

\* variant: a record is replaced only by one of a higher slot
map_insert_monotonic(m, key, data) ==
    IF m[key] # None /\ m[key].slot >= data.slot THEN m
    ELSE [m EXCEPT ![key] = data]

\* variant: entry(key).or_insert(data), an existing record is kept
map_insert_if_absent(m, key, data) ==
    IF m[key] # None THEN m ELSE [m EXCEPT ![key] = data]

\* AccountsCache::insert, first half: self.map.insert(key, data)
map_insert(m, key, data) == [m EXCEPT ![key] = data]

\* variant: the index of the entry before it in the response
account_key_before(from, i) == Keys[from + (IF i > 0 THEN i ELSE 1)]

\* variant: the index is counted from the end of the batch
account_key_from_end(from, i) == Keys[BatchTo(from) - i]

\* account_keys[i], with i = infos.len() after the pop
account_key(from, i) == Keys[from + i + 1]

\* update_infos: pop the next entry that has an account and store it
InsertStore ==
    /\ ~exited
    /\ aisPc = "insert"
    /\ SkipNone(infos) # <<>>
    /\ LET s == SkipNone(infos)
           next == Last(s)
           i == Len(s) - 1
           key == account_key(aisFrom, i)
           v == IF track THEN nIns + 1 ELSE 0
       IN /\ map' = map_insert(map, key, AccountState(next, respSlot, v))
          /\ infos' = Front(s)
          /\ aisKey' = key
          /\ nIns' = v
          /\ written' = IF track
                        THEN [written EXCEPT ![key] = AccountState(next, respSlot, v)]
                        ELSE written
    /\ aisPc' = "notify"
    /\ UNCHANGED <<ledgerVars, rpcVars, chanVars, aisPhase, aisFrom, respSlot,
                   lastErr, cycles, insLog, clean, provVars, rcvHist, outVars,
                   ctxVars, shutdown, runVars, aisGrace, exited,
                   fetchHist, restVars>>

\* Sender::send on the cache channel: every live receiver gets one more value
send_backlog(b) == [p \in Providers |-> IF rxAlive[p] THEN Behind(b[p]) ELSE b[p]]

\* variant: a bounded queue that makes the sender wait for the slowest
\* receiver
send_ready_bounded(b) == \A p \in Providers : rxAlive[p] => b[p] < ChannelCapacity

\* Sender::send is not async: it returns without waiting for any receiver,
\* however far behind
send_ready(b) == TRUE

\* variant: update_infos unwraps the result of insert
after_insert_unwrap(err) == IF err = "Ok" THEN "insert" ELSE "panicked"

\* `_ = self.cache.insert(..)`: the result is dropped and the loop goes on
after_insert(err) == "insert"

\* the notification of AccountsCache::insert: the key (the history fields
\* name the insert it comes from and the bytes that insert stored)
Notification(key) ==
    [key |-> key, ver |-> nIns, body |-> IF track THEN map[key].account.body ELSE 0]

\* AccountsCache::insert, second half: self.sender.send(key) and the result
InsertNotify ==
    /\ ~exited
    /\ aisPc = "notify"
    /\ send_ready(backlog)
    /\ IF NoSubscribers
       THEN /\ lastErr' = "ChannelSendError"
            /\ UNCHANGED <<chanVars, lagged>>
       ELSE /\ lastErr' = "Ok"
            /\ chanBuf' = Retain(chanBuf, Notification(aisKey))
            /\ backlog' = send_backlog(backlog)
            /\ lagged' = [p \in Providers |->
                             lagged[p] \/ backlog'[p] > ChannelCapacity]
    /\ insLog' = IF track THEN Append(insLog, aisKey) ELSE insLog
    /\ aisPc' = after_insert(lastErr')
    /\ UNCHANGED <<ledgerVars, rpcVars, map, aisPhase, aisFrom, infos, respSlot, aisKey,
                   cycles, nIns, written, clean, provVars, rcvLog, outVars,
                   ctxVars, shutdown, runVars, aisGrace, exited,
                   fetchHist, restVars>>

\* update_infos returns Ok(()) once infos is empty
BatchDone ==
    /\ ~exited
    /\ aisPc = "insert"
    /\ SkipNone(infos) = <<>>
    /\ infos' = <<>>
    /\ NextBatch
    /\ clean' = IF aisPhase = "hydrate" /\ aisPhase' = "replay" THEN TRUE ELSE clean
    /\ UNCHANGED <<ledgerVars, rpcVars, map, chanVars, respSlot, aisKey,
                   lastErr, nIns, insLog, written, provVars, rcvHist, outVars,
                   ctxVars, shutdown, runVars, aisGrace, exited,
                   fetchHist, restVars>>

\* variant: the body of update_infos_replay runs once
replay_once == FALSE

\* update_infos_replay is a `loop` without break or return
replay_loops == TRUE

\* update_infos_replay: the sleep ends and the loop starts the next cycle
Wake ==
    /\ ~exited
    /\ aisPc = "sleep"
    /\ replay_loops
    /\ Resumable
    /\ aisGrace' = FALSE
    /\ UNCHANGED <<fetchHist, restVars>>
    /\ track => cycles < MaxCycles
    /\ aisPc' = "fetch"
    /\ cycles' = IF track THEN cycles + 1 ELSE cycles
    /\ clean' = TRUE
    /\ UNCHANGED <<ledgerVars, rpcVars, map, chanVars, aisPhase, aisFrom,
                   infos, respSlot, aisKey, lastErr, nIns, insLog, written,
                   provVars, rcvHist, outVars, ctxVars, shutdown, runVars, exited>>

\* variant: the insert is awaited as well
await_points_with_insert == {"fetch", "sleep", "insert"}

\* the points at which update_infos_replay returns Pending: the `.await` of
\* the RPC call and the one of the sleep; AccountsCache::insert is not async
await_points == {"fetch", "sleep"}

\* start_service's select!: shutdown.recv() wins while the replay future
\* is pending on the RPC call or on the sleep
AisShutdown ==
    /\ ~exited
    /\ aisPhase = "replay"
    /\ aisPc \in await_points
    /\ Signalled("ais")
    /\ aisPc' = "stopped"
    /\ UNCHANGED <<ledgerVars, rpcVars, map, chanVars, aisPhase, aisFrom,
                   infos, respSlot, aisKey, lastErr, aisHist, clean, provVars,
                   rcvHist, outVars, ctxVars, shutdown, runVars, aisGrace, exited,
                   fetchHist, restVars>>

\* ---------------------------------------------------------------- decoders
\* utils::get_zero_copy_account::<CypherUser>: assert_eq! on the
\* discriminator, then the struct is copied out of the bytes after it
DiscriminatorOk(acc) == acc.disc = UserDiscriminator
get_zero_copy_account(acc) == [CypherUser |-> acc.body]

\* parse_dex_account into OpenOrders, wrapped in OpenOrdersContext
OpenOrdersContext(acc, key) == [open_orders |-> acc.body, pubkey |-> key]

\* -------------------------------------------------------------- slab codec
\* sequence numbers that tell the orders of one price apart
Seqs == {0, 1}
Prices == 1..MaxPrice

\* the key of a leaf (its order id): the price in the high bits, the sequence
\* number in the low ones
LeafKey(price, seq) == price * Cardinality(Seqs) + seq
LeafKeys == {LeafKey(pr, sq) : pr \in Prices, sq \in Seqs}
LeafPrice(k) == k \div Cardinality(Seqs)

\* the bits of a key, counted from 0; no key needs more than MaxPrice + 2
KeyBits == MaxPrice + 2
RECURSIVE Pow2(_)
Pow2(n) == IF n = 0 THEN 1 ELSE 2 * Pow2(n - 1)
BitOf(k, bit) == (k \div Pow2(bit)) % 2

\* the critbit tree of a set of keys: an Inner node splits its keys on the
\* highest bit in which they differ, 0 to the left and 1 to the right
RECURSIVE Tree(_, _)
Tree(S, bit) ==
    IF Cardinality(S) = 1
    THEN [tag |-> "Leaf", key |-> CHOOSE k \in S : TRUE]
    ELSE LET zero == {k \in S : BitOf(k, bit) = 0}
             one == S \ zero
         IN IF zero = {} \/ one = {}
            THEN Tree(S, bit - 1)
            ELSE [tag |-> "Inner", left |-> Tree(zero, bit - 1),
                  right |-> Tree(one, bit - 1)]

\* the walk from the root: in order for asks (ascending), in reverse order
\* for bids (descending); every Leaf yields one entry
RECURSIVE Walk(_, _)
Walk(t, is_asks) ==
    IF t.tag = "Leaf" THEN <<t.key>>
    ELSE IF is_asks THEN Walk(t.left, is_asks) \o Walk(t.right, is_asks)
    ELSE Walk(t.right, is_asks) \o Walk(t.left, is_asks)

\* OrderBookOrder of a leaf: the raw lot counts times the lot sizes
OrderBookOrder(k, pc_lot_size, coin_lot_size) ==
    [order_id |-> k, price |-> LeafPrice(k) * pc_lot_size,
     quantity |-> coin_lot_size]

\* Slab::get_depth: the walk stops once depth leaves are collected or the
\* tree is exhausted
get_depth(page, depth, is_asks) ==
    IF page.leaves = {} THEN <<>>
    ELSE LET all == Walk(Tree(page.leaves, KeyBits - 1), is_asks)
         IN [i \in 1..Min(depth, Len(all)) |->
                OrderBookOrder(all[i], page.pc_lot_size, page.coin_lot_size)]

\* Slab::new over the data of a cached account, with the lot sizes of the
\* market: the page holds the orders the account bytes encode
Slab_new(acc, ob_keys) ==
    [leaves |-> {LeafKey(acc.body, sq) : sq \in Seqs},
     pc_lot_size |-> ob_keys.pc_lot_size,
     coin_lot_size |-> ob_keys.coin_lot_size]

\* --------------------------------------------------------------- providers
\* self.books.iter().find(|ob| ob.market == ob_keys.market)
FindBook(market) == {i \in 1..Len(books) : books[i].market = market}

\* find() returns the first OrderBook of the market
BookOf(market) ==
    CHOOSE b \in FindBook(market) : \A c \in FindBook(market) : b <= c

\* process_updates of the order-book provider: `updated` is declared before
\* the for loop, set when the key is the bid or the ask address of an entry
\* that has its OrderBook, and never reset: is it set at the end of the
\* iteration for entry i?
updated(i, key) ==
    \E j \in 1..i :
        /\ FindBook(books_keys[j].market) # {}
        /\ key \in {books_keys[j].bids, books_keys[j].asks}

\* the entries, in order, for which the loop reaches self.sender.send
RECURSIVE Sends(_, _)
Sends(i, key) ==
    IF i > Len(books_keys) THEN <<>>
    ELSE IF FindBook(books_keys[i].market) # {} /\ updated(i, key)
    THEN <<i>> \o Sends(i + 1, key)
    ELSE Sends(i + 1, key)

\* Arc::clone(&ob) for entry i: the handle of the OrderBook found for it
Handle_of(i) == [market |-> books[BookOf(books_keys[i].market)].market]

\* the address sets the providers are built with
Watched(p) ==
    CASE p = "cap" -> {cypher_user_pk}
      [] p = "oop" -> {open_orders_pks[i] : i \in 1..Len(open_orders_pks)}
      [] p = "obp" -> UNION {{books_keys[i].bids, books_keys[i].asks} :
                               i \in 1..Len(books_keys)}

\* variant: the single-account and open-orders providers do not compare the
\* key
MatchesNoFilter(p, key) == p # "obp"

\* the tests of process_updates: does this notification reach the cache
\* read and the send?
Matches(p, key) ==
    CASE p = "cap" -> key = cypher_user_pk
      [] p = "oop" -> \E i \in 1..Len(open_orders_pks) : key = open_orders_pks[i]
      [] p = "obp" -> \E i \in 1..Len(books_keys) :
                         /\ FindBook(books_keys[i].market) # {}
                         /\ key \in {books_keys[i].bids, books_keys[i].asks}

\* variant: the value is decoded from the bytes the notification was sent for
TypedStale(p, key) ==
    CASE p = "cap" -> [CypherUser |-> pKey[p].body]
      [] p = "oop" -> [open_orders |-> pKey[p].body, pubkey |-> key]
      [] p = "obp" -> Handle_of(Sends(1, key)[1])

\* the value process_updates hands to self.sender.send
Typed(p, key) ==
    CASE p = "cap" -> get_zero_copy_account(get(key).account)
      [] p = "oop" -> OpenOrdersContext(get(key).account, key)
      [] p = "obp" -> Handle_of(Sends(1, key)[1])

\* the values process_updates hands to self.sender.send, in order: one for
\* the single-account and the open-orders provider, one per entry reached
\* with `updated` set for the order-book provider
Published(p, key) ==
    IF p = "obp"
    THEN [n \in 1..Len(Sends(1, key)) |-> Handle_of(Sends(1, key)[n])]
    ELSE <<Typed(p, key)>>

\* self.cache.get(&key).unwrap() or the decoder's assert panics
Panics(p, key) ==
    \/ get(key) = None
    \/ p = "cap" /\ ~DiscriminatorOk(get(key).account)

\* variant: a receive error ends the provider loop
after_recv_err_exit(p) == "stopped"

\* start: `if key.is_err() { .. continue; }`, back to the select!
after_recv_err(p) == "recv"

\* select!: receiver.recv() is ready
ProvRecv(p) ==
    /\ ~exited
    /\ p \in active
    /\ pPc[p] = "recv"
    /\ rxAlive[p]
    /\ backlog[p] > 0
    /\ IF backlog[p] > ChannelCapacity
       THEN \* Err(Lagged): `continue`; the receiver restarts at the oldest
            \* retained value
            /\ backlog' = [backlog EXCEPT ![p] = ChannelCapacity]
            /\ rcvLog' = [rcvLog EXCEPT ![p] = <<>>]
            /\ pPc' = [pPc EXCEPT ![p] = after_recv_err(p)]
            /\ UNCHANGED pKey
       ELSE /\ pKey' = [pKey EXCEPT ![p] = NextValue(chanBuf, backlog[p])]
            /\ backlog' = [backlog EXCEPT ![p] = @ - 1]
            /\ pPc' = [pPc EXCEPT ![p] = "proc"]
            /\ rcvLog' = [rcvLog EXCEPT ![p] =
                            IF track /\ ~lagged[p]
                            THEN Append(@, pKey'[p].key) ELSE @]
    /\ UNCHANGED lagged
    /\ UNCHANGED <<ledgerVars, rpcVars, map, chanBuf, aisVars, aisHist, clean,
                   outVars, ctxVars, shutdown, runVars, aisGrace, exited,
                   fetchHist, restVars>>

\* the Receiver of a provider's channel lives in its consumer (the
\* CypherContext for the user provider, the Handler for the other two), which
\* the InteractiveCli and the consumer's task share: once main has dropped the
\* InteractiveCli it lives as long as that task
Consumer(p) == IF p = "cap" THEN ctxPc ELSE hPc
outAlive == [p \in Providers |-> ~(shutdown /\ Consumer(p) = "stopped")]

\* the depth process_updates asks get_depth for
depth_arg_double(is_asks) == 2 * Depth
depth_arg(is_asks) == Depth

\* the ob_keys entries whose OrderBook is b and whose bid (ask) address is key
Hits(b, key, is_asks) ==
    {i \in 1..Len(books_keys) :
        /\ FindBook(books_keys[i].market) # {}
        /\ BookOf(books_keys[i].market) = b
        /\ IF is_asks
           THEN key = books_keys[i].asks /\ key # books_keys[i].bids
           ELSE key = books_keys[i].bids}

\* the levels process_updates decodes for entry i from the cached page
DecodeSide(i, key, is_asks) ==
    get_depth(Slab_new(get(key).account, books_keys[i]), depth_arg(is_asks),
              is_asks)

\* process_updates of the order-book provider: `*ob.bids.write().await = obl`
\* for the bid address, `*ob.asks.write().await = obl` for the ask address;
\* the other side and the other books are left alone
WriteSides(key) ==
    [b \in DOMAIN sides |->
        [bids |-> IF Hits(b, key, FALSE) # {}
                  THEN DecodeSide(CHOOSE i \in Hits(b, key, FALSE) : TRUE, key, FALSE)
                  ELSE sides[b].bids,
         asks |-> IF Hits(b, key, TRUE) # {}
                  THEN DecodeSide(CHOOSE i \in Hits(b, key, TRUE) : TRUE, key, TRUE)
                  ELSE sides[b].asks]]

\* the channel after the values vs have been sent, one after the other
RECURSIVE RetainAll(_, _)
RetainAll(buf, vs) ==
    IF vs = <<>> THEN buf ELSE RetainAll(Retain(buf, Head(vs)), Tail(vs))

\* Sender::send on the provider's own channel, for each value of vs in turn:
\* Err when no receiver is left, and then nothing is retained and
\* process_updates returns at once
Publish(p, vs) ==
    /\ IF outAlive[p]
       THEN /\ outBuf' = [outBuf EXCEPT ![p] = RetainAll(@, vs)]
            /\ outBacklog' = [outBacklog EXCEPT ![p] =
                                 Min(@ + Len(vs), ChannelCapacity + 1)]
            /\ lastSend' = [lastSend EXCEPT ![p] = IF track THEN "Ok" ELSE @]
            /\ nPub' = [nPub EXCEPT ![p] = IF track THEN @ + Len(vs) ELSE @]
            /\ lastPub' = [lastPub EXCEPT ![p] = IF track THEN Last(vs) ELSE @]
       ELSE /\ UNCHANGED <<outBuf, outBacklog>>
            /\ lastSend' = [lastSend EXCEPT ![p] = IF track THEN "Err" ELSE @]
            /\ nPub' = [nPub EXCEPT ![p] = IF track THEN @ + 1 ELSE @]
            /\ lastPub' = [lastPub EXCEPT ![p] = IF track THEN Head(vs) ELSE @]
    /\ lastMsg' = [lastMsg EXCEPT ![p] = IF track THEN pKey[p] ELSE @]

\* variant: a failed send ends the provider loop
after_publish_fatal(res) == IF res = "Err" THEN "stopped" ELSE "recv"

\* start: Ok or Err of process_updates, the loop goes back to its select!
after_publish(res) == "recv"

\* process_updates(key)
ProvProcess(p) ==
    /\ ~exited
    /\ p \in active
    /\ pPc[p] = "proc"
    /\ LET key == pKey[p].key
       IN IF ~Matches(p, key)
          THEN /\ pPc' = [pPc EXCEPT ![p] = "recv"]
               /\ UNCHANGED outVars
          ELSE IF Panics(p, key)
          THEN /\ pPc' = [pPc EXCEPT ![p] = "panicked"]
               /\ UNCHANGED outVars
          ELSE /\ sides' = IF p = "obp" THEN WriteSides(key) ELSE sides
               /\ Publish(p, Published(p, key))
               /\ pPc' = [pPc EXCEPT ![p] = after_publish(IF outAlive[p] THEN "Ok" ELSE "Err")]
    /\ pKey' = [pKey EXCEPT ![p] = None]
    /\ UNCHANGED <<ledgerVars, rpcVars, map, chanVars, aisVars, aisHist, clean,
                   rcvHist, ctxVars, shutdown, runVars, aisGrace, exited,
                   fetchHist, restVars>>

\* variant: a select! without the shutdown arm
shutdown_arm_missing(p) == FALSE

\* select!: `_ = shutdown.recv()` is ready once the signal is in the channel
shutdown_arm(p) == Signalled(p)

\* select!: shutdown.recv() is ready; the loop breaks
ProvShutdown(p) ==
    /\ ~exited
    /\ p \in active
    /\ pPc[p] = "recv"
    /\ shutdown_arm(p)
    /\ pPc' = [pPc EXCEPT ![p] = "stopped"]
    /\ UNCHANGED <<ledgerVars, rpcVars, map, chanVars, aisVars, aisHist, clean,
                   pKey, rcvHist, outVars, ctxVars, shutdown, runVars, aisGrace, exited,
                   fetchHist, restVars>>

\* ----------------------------------------------------------- CypherContext
\* variant: only the first value received is stored
store_first(cur, v) == IF cur = None THEN v ELSE cur

\* `*self.cypher_user.write().await = Some(*cypher_user.unwrap())`, and the
\* same assignment to Handler.open_orders: the value received replaces the
\* one held
store_latest(cur, v) == v

\* select!: ca_receiver.recv() is ready
CtxRecvUser ==
    /\ ~exited
    /\ ctxPc = "recv"
    /\ outBacklog["cap"] > 0
    /\ IF outBacklog["cap"] > ChannelCapacity
       THEN \* Err(Lagged) is printed
            /\ outBacklog' = [outBacklog EXCEPT !["cap"] = ChannelCapacity]
            /\ UNCHANGED cypher_user
       ELSE /\ cypher_user' = store_latest(cypher_user,
                                           NextValue(outBuf["cap"], outBacklog["cap"]))
            /\ outBacklog' = [outBacklog EXCEPT !["cap"] = @ - 1]
    /\ UNCHANGED <<ledgerVars, rpcVars, map, chanVars, aisVars, aisHist, clean,
                   provVars, rcvHist, outBuf, nPub, lastPub, lastMsg, sides,
                   lastSend, ctxPc,
                   shutdown, runVars, aisGrace, exited,
                   fetchHist, restVars>>

\* select!: shutdown.recv() is ready; the loop breaks
CtxShutdown ==
    /\ ~exited
    /\ ctxPc = "recv"
    /\ Signalled("ctx")
    /\ ctxPc' = "stopped"
    /\ UNCHANGED <<ledgerVars, rpcVars, map, chanVars, aisVars, aisHist, clean,
                   provVars, rcvHist, outVars, cypher_user, shutdown, runVars, aisGrace, exited,
                   fetchHist, restVars>>

\* CypherContext::get_user
UserNotAvailable == [err |-> "UserNotAvailable"]
get_user == IF cypher_user = None THEN UserNotAvailable ELSE cypher_user

\* ------------------------------------------------------------------ Handler
\* variant: the Handler stores every open orders value it receives
accepts_any_open_orders(v) == TRUE

\* `if ooc.pubkey == self.market_context.open_orders_pk`
accepts_open_orders(v) == v.pubkey = open_orders_pk

\* `if obc.market == self.market_context.dex_market_pk`
accepts_orderbook(v) == v.market = dex_market_pk

\* select!: oo_receiver.recv() or ob_receiver.recv() is ready
HandlerRecv(p) ==
    /\ ~exited
    /\ p \in {"oop", "obp"}
    /\ hPc = "recv"
    /\ outBacklog[p] > 0
    /\ IF outBacklog[p] > ChannelCapacity
       THEN \* Err(Lagged): is_ok() is false and nothing is done
            /\ outBacklog' = [outBacklog EXCEPT ![p] = ChannelCapacity]
            /\ UNCHANGED <<open_orders, orderbook>>
       ELSE LET v == NextValue(outBuf[p], outBacklog[p])
            IN /\ outBacklog' = [outBacklog EXCEPT ![p] = @ - 1]
               /\ open_orders' =
                     IF p = "oop" /\ accepts_open_orders(v)
                     THEN store_latest(open_orders, [OpenOrders |-> v.open_orders])
                     ELSE open_orders
               /\ orderbook' =
                     IF p = "obp" /\ accepts_orderbook(v)
                     THEN v ELSE orderbook
    /\ UNCHANGED <<ledgerVars, rpcVars, map, chanVars, aisVars, aisHist, clean,
                   provVars, rcvHist, outBuf, nPub, lastPub, lastMsg, sides,
                   lastSend, ctxVars, shutdown, runVars, aisGrace, exited,
                   fetchHist, hCtx, hPc, chainVars, slabVars>>

\* select!: shutdown.recv() is ready; the loop breaks
HandlerShutdown ==
    /\ ~exited
    /\ hPc = "recv"
    /\ Signalled("handler")
    /\ hPc' = "stopped"
    /\ UNCHANGED <<ledgerVars, rpcVars, map, chanVars, aisVars, aisHist, clean,
                   provVars, rcvHist, outVars, ctxVars, shutdown, runVars,
                   aisGrace, exited, fetchHist, hCtx, open_orders, orderbook,
                   chainVars, slabVars>>

\* Handler::get_open_orders
OpenOrdersNotAvailable == [err |-> "OpenOrdersNotAvailable"]
get_open_orders ==
    IF open_orders = None THEN OpenOrdersNotAvailable ELSE open_orders

\* Handler::get_orderbook: Ok(Arc::clone(&ob)), whatever the Handler holds
get_orderbook == orderbook

\* --------------------------------------------------------- ChainMetaService
\* what the steps of the chain meta service leave alone
cmFrame == <<ledgerVars, rpcVars, map, chanVars, aisVars, aisHist, clean,
             provVars, rcvHist, outVars, ctxVars, shutdown, runVars, aisGrace,
             exited, fetchHist, handlerVars, slabVars>>

\* `*self.recent_blockhash.write().await = hash.0`, before the slot fetch
hash_after_ok(old, h) == h

\* update_chain_meta: get_latest_blockhash_with_commitment returns Ok
CmHashOk ==
    /\ ~exited
    /\ cmPc = "hash"
    /\ \E h \in Hashes :
          /\ recent_blockhash' = hash_after_ok(recent_blockhash, h)
          /\ fetchedHash' = h
    /\ cmPc' = "slot"
    /\ UNCHANGED <<cmSlot, cmRes, cmFrame>>

\* variant: a failed refresh is tried again at once
after_refresh_retry(res) == IF res = "Ok" THEN "sleep" ELSE "hash"

\* update_chain_meta_replay: `_ = self.update_chain_meta().await`, then the
\* sleep, whatever the result
after_refresh(res) == "sleep"

\* the blockhash fetch returns Err: update_chain_meta returns it
CmHashErr ==
    /\ ~exited
    /\ cmPc = "hash"
    /\ cmRes' = "HashErr"
    /\ cmPc' = after_refresh(cmRes')
    /\ UNCHANGED <<recent_blockhash, cmSlot, fetchedHash, cmFrame>>

\* get_slot returns Ok: `*self.slot.write().await = slot`
CmSlotOk ==
    /\ ~exited
    /\ cmPc = "slot"
    /\ \E sl \in Slots : cmSlot' = sl
    /\ cmRes' = "Ok"
    /\ cmPc' = after_refresh(cmRes')
    /\ UNCHANGED <<recent_blockhash, fetchedHash, cmFrame>>

\* get_slot returns Err: update_chain_meta returns it
CmSlotErr ==
    /\ ~exited
    /\ cmPc = "slot"
    /\ cmRes' = "SlotErr"
    /\ cmPc' = after_refresh(cmRes')
    /\ UNCHANGED <<recent_blockhash, cmSlot, fetchedHash, cmFrame>>

\* sleep(Duration::from_millis(2500)) is over
CmWake ==
    /\ ~exited
    /\ cmPc = "sleep"
    /\ cmPc' = "hash"
    /\ UNCHANGED <<recent_blockhash, cmSlot, cmRes, fetchedHash, cmFrame>>

\* start_service's select!: shutdown.recv() wins while the replay future is
\* pending on an RPC call or on the sleep
CmShutdown ==
    /\ ~exited
    /\ cmPc \in {"hash", "slot", "sleep"}
    /\ Signalled("cm")
    /\ cmPc' = "stopped"
    /\ UNCHANGED <<recent_blockhash, cmSlot, cmRes, fetchedHash, cmFrame>>

\* ChainMetaService::get_latest_blockhash
get_latest_blockhash == recent_blockhash

\* ------------------------------------------------------ the slab of a market
LotSizes == {1, 2}

\* what a change or a decoding of the page leaves alone
slabFrame == <<ledgerVars, rpcVars, map, chanVars, aisVars, aisHist, clean,
               provVars, rcvHist, outVars, ctxVars, shutdown, runVars, aisGrace,
               exited, fetchHist, handlerVars, chainVars>>

\* the exchange places an order: the page gets one more leaf
PlaceOrder(k) ==
    /\ k \notin slab.leaves
    /\ Cardinality(slab.leaves) < MaxLeaves
    /\ slab' = [slab EXCEPT !.leaves = @ \cup {k}]
    /\ UNCHANGED <<obl, newBook, slabFrame>>

\* process_updates decodes the page as the bid or as the ask side
Decode(is_asks) ==
    /\ obl' = [is_asks |-> is_asks, leaves |-> slab.leaves,
               levels |-> get_depth(slab, depth_arg(is_asks), is_asks)]
    /\ UNCHANGED <<slab, newBook, slabFrame>>

\* the markets of the program
Markets == {market_contexts[i].dex_market_pk : i \in 1..Len(market_contexts)}

\* OrderBook::new(market): `market: Pubkey::default()`, two empty sides
OrderBook_new(market) == [market |-> PubkeyDefault, bids |-> <<>>, asks |-> <<>>]

\* OrderBook::new is called for market m
NewOrderBook(m) ==
    /\ newBook' = [market |-> m, book |-> OrderBook_new(m)]
    /\ UNCHANGED <<slab, obl, slabFrame>>

\* ---------------------------------------------------------------- shutdown
\* main: ctrl_c fires and shutdown_send.send(true) is called
SendShutdown ==
    /\ ~exited
    /\ ~shutdown
    /\ shutdown' = TRUE
    /\ aisGrace' = (aisPhase = "replay" /\ aisPc \notin {"stopped", "panicked"})
    /\ UNCHANGED <<fetchHist, restVars>>
    /\ UNCHANGED <<ledgerVars, rpcVars, map, chanVars, aisVars, aisHist, clean,
                   provVars, rcvHist, outVars, ctxVars, runVars, exited>>

\* what the end of the process leaves unchanged: the tasks are gone where
\* they stood
exitFrame == <<ledgerVars, rpcVars, map, chanVars, aisVars, aisHist, clean,
               provVars, rcvHist, outVars, ctxVars, shutdown, active, track,
               aisGrace, fetchHist, restVars>>

\* run_loop breaks on InteractiveCommand::Exit: run and start return Ok, the
\* first arm of main's select! completes and main returns; nothing is sent
ExitCommand ==
    /\ ~exited
    /\ ~shutdown
    /\ exited' = TRUE
    /\ UNCHANGED exitFrame

\* main returns from the ctrl_c arm once shutdown_send.send(true) is done; no
\* JoinHandle is awaited
MainReturn ==
    /\ ~exited
    /\ shutdown
    /\ exited' = TRUE
    /\ UNCHANGED exitFrame

\* ----------------------------------------------------------- specification
Ledger == \E a \in Addresses : \E v \in LedgerValues(a) : RemoteChange(a, v)

\* the steps of the running tasks
Run ==
    \/ FetchOk
    \/ FetchErr
    \/ InsertStore
    \/ InsertNotify
    \/ BatchDone
    \/ Wake
    \/ \E p \in Providers : ProvRecv(p)
    \/ \E p \in Providers : ProvProcess(p)
    \/ CtxRecvUser

\* the steps that follow the shutdown signal
Stop ==
    \/ SendShutdown
    \/ AisShutdown
    \/ \E p \in Providers : ProvShutdown(p)
    \/ CtxShutdown
    \/ HandlerShutdown

\* the pipeline at work over a changing ledger
Next == Ledger \/ Run

Spec == Init /\ [][Next]_vars

\* the pipeline and its shutdown, over a steady ledger
NextShutdown == Run \/ Stop

SpecShutdown == Init /\ [][NextShutdown]_vars

\* the ways the process ends
Exit ==
    \/ ExitCommand
    \/ MainReturn

\* the pipeline, its shutdown and the end of the process
NextExit == Run \/ Stop \/ Exit

SpecExit == Init /\ [][NextExit]_vars

\* the pipeline under fair scheduling, with the single-account provider
\* polled, without history: the cycles are not bounded, the ledger changes
\* and the RPC failures are
LiveInit == InitCommon /\ track = FALSE /\ active = {"cap"}

\* recv() returns the notification of key k (not Err(Lagged))
ProvRecvValue(p, k) ==
    /\ ProvRecv(p)
    /\ backlog[p] <= ChannelCapacity
    /\ NextValue(chanBuf, backlog[p]).key = k
CtxRecvUserValue == CtxRecvUser /\ outBacklog["cap"] <= ChannelCapacity

\* the user provider and the context have received all that was sent to them
Drained ==
    /\ backlog["cap"] = 0
    /\ pPc["cap"] = "recv"
    /\ outBacklog["cap"] = 0

\* every task is polled again and again; a receive loop that is polled calls
\* recv() until its channel is empty, and the polling service sleeps between
\* two passes, so the receivers catch up again and again
Fairness ==
    /\ []<>Drained
    /\ WF_vars(FetchOk)
    /\ WF_vars(InsertStore)
    /\ WF_vars(InsertNotify)
    /\ WF_vars(BatchDone)
    /\ WF_vars(Wake)
    /\ WF_vars(ProvRecv("cap"))
    /\ SF_vars(ProvRecvValue("cap", cypher_user_pk))
    /\ WF_vars(ProvProcess("cap"))
    /\ WF_vars(CtxRecvUser)
    /\ SF_vars(CtxRecvUserValue)

LiveSpec == LiveInit /\ [][Next]_vars /\ Fairness

\* the steps of the task spawned for AccountInfoService::start_service
Service ==
    \/ FetchOk
    \/ FetchErr
    \/ InsertStore
    \/ InsertNotify
    \/ BatchDone
    \/ Wake

\* the poll service on its own over a changing ledger, its receivers left
\* unpolled (no step of the service waits for one): the runtime polls the
\* task again whenever its RPC call or its sleep is over
NextService == Ledger \/ Service

FairService ==
    /\ WF_vars(FetchOk)
    /\ WF_vars(InsertStore)
    /\ WF_vars(InsertNotify)
    /\ WF_vars(BatchDone)
    /\ WF_vars(Wake)

LiveServiceSpec == LiveInit /\ [][NextService]_vars /\ FairService

\* the poll service while its RPC calls succeed, the providers it notifies
\* and the shutdown signal, under fair scheduling and without history; the
\* consumers of the providers are left unpolled (no step of a provider waits
\* for one)
LiveStopInit == InitCommon /\ track = FALSE

NextStop ==
    \/ FetchOk
    \/ InsertStore
    \/ InsertNotify
    \/ BatchDone
    \/ Wake
    \/ \E p \in Providers : ProvRecv(p)
    \/ \E p \in Providers : ProvProcess(p)
    \/ SendShutdown
    \/ AisShutdown
    \/ \E p \in Providers : ProvShutdown(p)

\* every task is polled again and again, and select! picks at random among
\* the arms that are ready, so an arm that is ready again and again is taken
FairStop ==
    \A p \in Providers :
        /\ WF_vars(ProvProcess(p))
        /\ SF_vars(ProvShutdown(p))

LiveStopSpec == LiveStopInit /\ [][NextStop]_vars /\ FairStop

\* the pipeline with the Handler polled as well
Handle == \E p \in {"oop", "obp"} : HandlerRecv(p)

NextLookup == Ledger \/ Run \/ Handle

SpecLookup == Init /\ [][NextLookup]_vars

\* the open-orders provider and the Handler of any one market, over a
\* changing ledger
InitHandler ==
    /\ InitBase
    /\ track = TRUE
    /\ active = {"oop"}
    /\ hCtx \in 1..Len(market_contexts)

NextHandler ==
    \/ Ledger
    \/ Service
    \/ ProvRecv("oop")
    \/ ProvProcess("oop")
    \/ Handle

SpecHandler == InitHandler /\ [][NextHandler]_vars

\* a ledger on which the account at the user address can be replaced by one
\* of another type
Foreign == Account("other", 1)

LedgerCorrupt ==
    \E v \in LedgerValues(cypher_user_pk) \cup {Foreign} :
        RemoteChange(cypher_user_pk, v)

\* the pipeline over that ledger, the user provider polled
InitDecode == Init /\ active = {"cap"}

NextDecode == LedgerCorrupt \/ Run

SpecDecode == InitDecode /\ [][NextDecode]_vars

\* the chain meta service and its shutdown; the replay future can be resumed
\* after the signal, until select! polls shutdown.recv()
NextChainMeta ==
    \/ CmHashOk
    \/ CmHashErr
    \/ CmSlotOk
    \/ CmSlotErr
    \/ CmWake
    \/ SendShutdown
    \/ CmShutdown

SpecChainMeta == Init /\ [][NextChainMeta]_vars

\* a slab page as orders are placed on it, decoded at any time for either
\* side, with any lot sizes
InitSlab ==
    /\ InitProgram
    /\ track = TRUE
    /\ active = {"obp"}
    /\ hCtx = 1
    /\ slab \in {[leaves |-> {}, pc_lot_size |-> pl, coin_lot_size |-> cl] :
                    pl \in LotSizes, cl \in LotSizes}
    /\ obl = None
    /\ newBook = None

NextSlab ==
    \/ \E k \in LeafKeys : PlaceOrder(k)
    \/ \E is_asks \in BOOLEAN : Decode(is_asks)

SpecSlab == InitSlab /\ [][NextSlab]_vars

\* the functions of the order-book provider on any input: pages decoded for
\* either side, OrderBooks constructed for any market
NextBook ==
    \/ NextSlab
    \/ \E m \in Markets : NewOrderBook(m)

SpecBook == InitSlab /\ [][NextBook]_vars

TypeOK ==
    /\ \A a \in Addresses : remote[a] \in LedgerValues(a)
    /\ aisPc \in {"fetch", "insert", "notify", "sleep", "stopped", "panicked"}
    /\ \A p \in Providers : backlog[p] \in 0..(ChannelCapacity + 1)
    /\ Len(chanBuf) <= ChannelCapacity

\* ================================================================== claims

\* C1: after insert(a, r) every get(a) returns exactly r (bytes and slot)
\* until the next insert for a, whatever happens to the other addresses
C1_GetReturnsLastInsert ==
    \A a \in Addresses : written[a] # None => get(a) = written[a]

\* a record has been replaced by a second insert and another address has
\* been inserted since
C1_Witness ==
    /\ written["oo"] # None
    /\ written["bids"] # None
    /\ written["oo"].ver > Len(Keys)
    /\ written["bids"].ver > written["oo"].ver
    /\ get("oo") = written["oo"]

\* C2: when a subscriber holds the notification of address a, get(a) is
\* a record written by the insert that sent it or by a later one, so the
\* get(key).unwrap() of the providers never fails
C2_ReadYourWrites ==
    \A p \in Providers :
        /\ pPc[p] # "panicked"
        /\ pPc[p] = "proc" =>
              /\ get(pKey[p].key) # None
              /\ get(pKey[p].key).ver >= pKey[p].ver

\* a provider holds the notification of a watched address that a later
\* insert has already overwritten
C2_Witness ==
    \E p \in Providers :
        /\ pPc[p] = "proc"
        /\ pKey[p].key \in Watched(p)
        /\ get(pKey[p].key).ver > pKey[p].ver

\* C3: a subscriber that never lags receives exactly the addresses
\* inserted, in the order of the inserts: what it has received is a prefix
\* of the inserts and the rest is still waiting for it
C3_DeliveryInOrder ==
    \A p \in active :
        ~lagged[p] =>
            /\ rcvLog[p] = SubSeq(insLog, 1, Len(rcvLog[p]))
            /\ Len(rcvLog[p]) + backlog[p] = Len(insLog)

\* a subscriber has kept up over the hydration pass and a replay cycle
C3_Witness ==
    \E p \in active :
        /\ ~lagged[p]
        /\ Len(rcvLog[p]) > Len(Keys)
        /\ rcvLog[p] = insLog

\* C4: AccountsCache.insert never waits for a subscriber: between
\* map.insert and the return of the send the service can always step,
\* whatever the subscribers have left unconsumed
C4_ProducerNeverBlocked ==
    /\ aisPc = "notify" => ENABLED InsertNotify
    /\ aisPc = "insert" => ENABLED (InsertStore \/ BatchDone)

\* an insert has completed while a subscriber had more than the channel
\* capacity unconsumed
C4_Witness ==
    \E p \in Providers :
        /\ backlog[p] > ChannelCapacity
        /\ Len(insLog) > ChannelCapacity + 1
        /\ lastErr = "Ok"
        /\ aisPc = "insert"

\* C5: an insert made while the channel has no subscriber stores the
\* record, returns ChannelSendError, and update_infos goes on with the batch
C5_NoSubscriberInsert ==
    [][(aisPc = "notify" /\ aisPc' # "notify" /\ NoSubscribers) =>
          /\ lastErr' = "ChannelSendError"
          /\ map' = map
          /\ get(aisKey) = written[aisKey]
          /\ aisPc' = "insert"
          /\ UNCHANGED <<infos, aisFrom, aisPhase, chanBuf>>]_vars

\* after an insert that returned ChannelSendError the next record of the
\* batch has been stored
C5_Witness ==
    /\ lastErr = "ChannelSendError"
    /\ aisPc = "notify"
    /\ get(aisKey) = written[aisKey]

\* an insert for address a has been issued
Inserted(a) ==
    \/ \E i \in 1..Len(insLog) : insLog[i] = a
    \/ aisPc = "notify" /\ aisKey = a

\* C6: get(a) is None exactly as long as no insert for a has been issued
C6_NoneUntilInserted ==
    \A a \in Addresses : (get(a) = None) <=> ~Inserted(a)

\* a full pass is over, one address is in the cache and another one, without
\* a remote account, is not
C6_Witness ==
    /\ aisPc = "sleep"
    /\ get("bids") = None
    /\ get("user") # None

\* C7: a provider calls send only while it processes the notification of an
\* address of its watch set
C7_OnlyWatched ==
    [][\A p \in Providers :
          nPub'[p] # nPub[p] =>
              (pKey[p] # None /\ pKey[p].key \in Watched(p))]_vars

\* a provider has received the notification of an address outside its watch
\* set, and has published for one inside
C7_Witness ==
    \E p \in active :
        /\ pPc[p] = "recv"
        /\ nPub[p] = 1
        /\ \E i \in 1..Len(rcvLog[p]) : rcvLog[p][i] \notin Watched(p)
        /\ lastMsg[p].key \in Watched(p)

\* the typed value of the record the cache holds for key
DecodedNow(p, key) ==
    IF p = "cap"
    THEN [CypherUser |-> map[key].account.body]
    ELSE [open_orders |-> map[key].account.body, pubkey |-> key]

\* C8: for the notification of a watched address the single-account and
\* the open-orders provider publish exactly one value, decoded from the
\* record the cache holds when the notification is processed
C8_PublishesFreshest ==
    [][\A p \in {"cap", "oop"} :
          (pPc[p] = "proc" /\ pPc'[p] # "proc" /\ pKey[p].key \in Watched(p)) =>
              /\ nPub'[p] = nPub[p] + 1
              /\ lastPub'[p] = DecodedNow(p, pKey[p].key)
              /\ outBuf'[p] = Retain(outBuf[p], DecodedNow(p, pKey[p].key))]_vars

\* the value published last differs from the bytes its notification was
\* sent for
C8_Witness ==
    \/ /\ lastMsg["cap"] # None
       /\ lastPub["cap"].CypherUser # lastMsg["cap"].body
    \/ /\ lastMsg["oop"] # None
       /\ lastPub["oop"].open_orders # lastMsg["oop"].body

\* C9: at the end of a replay cycle without fetch error and without ledger
\* change the cache holds the remote account of every watched address that
\* has one, whatever notifications the subscribers have lost
C9_CacheConverges ==
    (aisPc = "sleep" /\ clean) =>
        \A a \in Addresses :
            remote[a] # None => (get(a) # None /\ get(a).account = remote[a])

\* the polled subscriber has lost notifications, the ledger has changed, and
\* the cycle after the change is over
C9_Witness ==
    /\ aisPc = "sleep"
    /\ clean
    /\ \E p \in active : lagged[p]
    /\ nChg > 0
    /\ get("user") # None
    /\ get("user").account.body = 2

\* C10: once the ledger has stopped changing and the RPC calls succeed,
\* get_user eventually returns the decoding of the remote user account,
\* and keeps returning it
C10_UserConverges ==
    <>[](get_user = [CypherUser |-> remote[cypher_user_pk].body])

\* the log is a pass over the whole watch-list: consecutive batches from
\* index 0 to the end of the list
FullPass(log) ==
    /\ Len(log) > 0
    /\ log[1].from = 0
    /\ log[Len(log)].to = Len(Keys)
    /\ \A i \in 1..(Len(log) - 1) : log[i + 1].from = log[i].to

\* a replay cycle is over: the service sleeps, or has woken up and not yet
\* fetched
CycleOver ==
    /\ aisPhase = "replay"
    /\ \/ aisPc = "sleep"
       \/ aisPc = "fetch" /\ aisFrom = 0 /\ cycles > 1

\* C11: a batch fetch that fails in the replay loop changes neither the cache
\* nor its channel, the loop goes on with the batch after the failed one (or
\* sleeps if it was the last), never with the failed one again, and every
\* cycle, the one after a failure included, attempts every batch
C11_ReplayFailureSkipped ==
    /\ [][(nErr' # nErr /\ aisPhase = "replay") =>
             /\ map' = map
             /\ chanBuf' = chanBuf
             /\ aisPhase' = "replay"
             /\ aisPc' \in {"fetch", "sleep"}
             /\ aisPc' = "fetch" => aisFrom' = BatchTo(aisFrom)
             /\ aisPc' = "sleep" => BatchTo(aisFrom) = Len(Keys)]_vars
    /\ [](CycleOver => FullPass(batchLog))

\* a fetch failed in the first replay cycle; the second cycle has fetched
\* every batch without error and has inserted the first address again
C11_Witness ==
    /\ aisPc = "sleep"
    /\ nErr = 1
    /\ cycles = 2
    /\ clean
    /\ FullPass(batchLog)
    /\ get("bids") # None
    /\ get("bids").ver > nIns - Len(Keys)

\* C12: a batch fetch that fails, in the hydration pass as in a replay
\* cycle, leaves the service running: it goes on to its next batch fetch or
\* to its sleep
C12_FetchFailureNotFatal ==
    [][nErr' # nErr => aisPc' \in {"fetch", "sleep"}]_vars

\* update_infos has popped every entry of the response in hand
BatchInserted ==
    /\ aisPc = "insert"
    /\ SkipNone(infos) = <<>>

\* number of entries of a response that hold an account
Returned(value) == Cardinality({j \in 1..Len(value) : value[j] # None})

\* C13: when a batch has been processed, every address of the batch for
\* which the response held an account has been inserted with that account and
\* the slot of the response, and no other address of the batch has been
\* inserted: the batch made exactly one insert per returned account
C13_InsertsWhatWasReturned ==
    BatchInserted =>
        /\ nIns = resp.base + Returned(resp.value)
        /\ \A j \in 1..Len(resp.value) :
              LET key == Keys[aisFrom + j]
              IN IF resp.value[j] # None
                 THEN /\ get(key) # None
                      /\ get(key).account = resp.value[j]
                      /\ get(key).slot = respSlot
                      /\ get(key).ver > resp.base
                 ELSE get(key) = None \/ get(key).ver <= resp.base

\* the first batch of the hydration pass is done: its first address has no
\* remote account and is absent, its second one is cached with the slot of
\* the response
C13_Witness ==
    /\ BatchInserted
    /\ aisPhase = "hydrate"
    /\ aisFrom = 0
    /\ resp.value[1] = None
    /\ get(Keys[1]) = None
    /\ get(Keys[2]) # None
    /\ get(Keys[2]).slot = MaxSlot

\* the batches of log split the indices 0..n-1 into ceil(n / BatchSize)
\* consecutive ranges of at most BatchSize indices
IsPartition(log, n) ==
    /\ Len(log) = (n + BatchSize - 1) \div BatchSize
    /\ \A i \in 1..Len(log) :
          /\ log[i].to - log[i].from \in 1..BatchSize
          /\ log[i].from = IF i = 1 THEN 0 ELSE log[i - 1].to
    /\ \A k \in 0..(n - 1) :
          Cardinality({i \in 1..Len(log) : log[i].from <= k /\ k < log[i].to}) = 1

\* the hydration pass is over and the first replay cycle has not fetched yet
HydrationOver ==
    /\ aisPhase = "replay"
    /\ cycles = 1
    /\ aisPc = "fetch"
    /\ aisFrom = 0

\* C14: the for loop of the hydration pass splits a watch-list of n
\* addresses into ceil(n / BatchSize) consecutive batches of at most
\* BatchSize, each index in exactly one batch (none when n = 0); the service
\* fetches them in that order, each call made after the one before returned
C14_HydrationPartition ==
    /\ \A n \in 0..MaxKeys : IsPartition(Batches(n, 0), n)
    /\ aisPhase = "hydrate" =>
          /\ batchLog = SubSeq(Batches(Len(Keys), 0), 1, Len(batchLog))
          /\ aisPc # "panicked" =>
                aisFrom = IF batchLog = <<>> THEN 0
                          ELSE IF aisPc = "fetch" THEN batchLog[Len(batchLog)].to
                          ELSE batchLog[Len(batchLog)].from
    /\ HydrationOver =>
          /\ batchLog = Batches(Len(Keys), 0)
          /\ IsPartition(batchLog, Len(Keys))

\* the hydration pass has fetched more than one batch and the last one is
\* shorter than the others
C14_Witness ==
    /\ HydrationOver
    /\ Len(batchLog) > 1
    /\ batchLog[Len(batchLog)].to - batchLog[Len(batchLog)].from < BatchSize
    /\ nIns >= Len(Keys) - 1

\* the first index of every batch of the watch-list
BatchStarts ==
    {Batches(Len(Keys), 0)[i].from : i \in 1..Len(Batches(Len(Keys), 0))}

\* C15: once the hydration pass is over and no shutdown signal is sent, the
\* fetch of every batch of the watch-list is issued again and again: every
\* cycle is followed by another one that fetches every batch
C15_RefetchForever ==
    \A f \in BatchStarts :
        [](aisPhase = "replay" => <>(aisPc = "fetch" /\ aisFrom = f /\ ~shutdown))

\* a replay cycle in which a fetch failed is over and the service sleeps
C15_Witness ==
    /\ aisPhase = "replay"
    /\ aisPc = "sleep"
    /\ nErr > 0
    /\ ~clean
    /\ ~shutdown
    /\ get(cypher_user_pk) # None

\* every task the runtime polls has left its loop on the shutdown branch of
\* its select!
AllStopped ==
    /\ aisPc = "stopped"
    /\ ctxPc = "stopped"
    /\ hPc = "stopped"
    /\ \A p \in active : pPc[p] = "stopped"

\* C16: whenever the process ends, through Ctrl-C or through the exit
\* command, the shutdown signal has been broadcast and every background task
\* has left its loop by observing it
C16_CooperativeShutdown ==
    [][(~exited /\ exited') => (shutdown /\ AllStopped)]_vars

\* C17: once the shutdown signal is out, every provider loop that is polled
\* leaves its loop, whatever notifications and receive errors it still gets
C17_ProvidersTerminate ==
    [](shutdown => <>(\A p \in active : pPc[p] = "stopped"))

\* a provider has left its loop with notifications still waiting, after a
\* receive that returned the lag error
C17_Witness ==
    \E p \in active :
        /\ shutdown
        /\ pPc[p] = "stopped"
        /\ lagged[p]
        /\ backlog[p] > 0

\* C18: once the shutdown signal is out the service stops at its next
\* suspension point: at most the batch fetch that was in flight returns to
\* it, and no call made after the signal does
C18_StopsAtNextSuspension ==
    afterStop <= 1

\* the markets whose bid or ask address is key
MarketsOf(key) ==
    {books_keys[i].market : i \in {j \in 1..Len(books_keys) :
                                      key \in {books_keys[j].bids, books_keys[j].asks}}}

\* C19: when the order-book provider has processed the notification of the
\* bid or ask address of a watched market, that market has its OrderBook and
\* the provider has published it on its channel
C19_OrderBookPublished ==
    [][(/\ pPc["obp"] = "proc"
        /\ pPc'["obp"] # "proc"
        /\ pKey["obp"].key \in Watched("obp")) =>
          /\ \A m \in MarketsOf(pKey["obp"].key) : FindBook(m) # {}
          /\ nPub'["obp"] = nPub["obp"] + 1
          /\ outBuf'["obp"] # <<>>]_vars

\* the order-book provider has processed a notification of address a
Processed(a) ==
    /\ pPc["obp"] = "recv"
    /\ \E j \in 1..Len(rcvLog["obp"]) : rcvLog["obp"][j] = a

\* C20: the order-book provider never holds two OrderBooks for one market,
\* and holds exactly one from the first notification of the market's bid or
\* ask address on
C20_OneBookPerMarket ==
    \A i \in 1..Len(books_keys) :
        /\ Cardinality(FindBook(books_keys[i].market)) <= 1
        /\ (Processed(books_keys[i].bids) \/ Processed(books_keys[i].asks)) =>
              Cardinality(FindBook(books_keys[i].market)) = 1

\* C21: when the order-book provider has processed the notification of the
\* bid address of a market, the bids of the market's OrderBook are the
\* decoding of the cached page, whole, and its asks are what they were; and
\* the same with the sides exchanged for the ask address
C21_SidesIndependent ==
    [][(pPc["obp"] = "proc" /\ pPc'["obp"] # "proc") =>
          \A i \in 1..Len(books_keys) :
              LET key == pKey["obp"].key
              IN /\ key = books_keys[i].bids =>
                       \E b \in FindBook(books_keys[i].market) :
                           /\ sides'[b].bids = DecodeSide(i, key, FALSE)
                           /\ sides'[b].asks = sides[b].asks
                 /\ key = books_keys[i].asks =>
                       \E b \in FindBook(books_keys[i].market) :
                           /\ sides'[b].asks = DecodeSide(i, key, TRUE)
                           /\ sides'[b].bids = sides[b].bids]_vars

\* the levels are in strict price order: descending for bids, ascending for
\* asks
StrictlyOrdered(levels, is_asks) ==
    \A i \in 1..(Len(levels) - 1) :
        IF is_asks THEN levels[i].price < levels[i + 1].price
        ELSE levels[i].price > levels[i + 1].price

\* C22: the levels decoded from any page, one that holds several orders at
\* the same price included, are in strict price order
C22_StrictlyOrdered ==
    obl # None => StrictlyOrdered(obl.levels, obl.is_asks)

\* the leaves of the decoded page that are not among the levels
LeftOut(o) ==
    {k \in o.leaves : \A i \in 1..Len(o.levels) : o.levels[i].order_id # k}

\* C23: a decoded side never holds more than Depth levels; it holds Depth of
\* them when the page has more leaves, and then no leaf left out has a better
\* price (higher for bids, lower for asks) than a level kept
C23_DepthCap ==
    obl # None =>
        /\ Len(obl.levels) <= Depth
        /\ Len(obl.levels) = Min(Depth, Cardinality(obl.leaves))
        /\ \A k \in LeftOut(obl) : \A i \in 1..Len(obl.levels) :
              IF obl.is_asks
              THEN obl.levels[i].price <= LeafPrice(k) * slab.pc_lot_size
              ELSE obl.levels[i].price >= LeafPrice(k) * slab.pc_lot_size

\* a page with more than Depth leaves has been decoded as the bid side, and
\* the order with the lowest price on it was left out
C23_Witness ==
    /\ obl # None
    /\ ~obl.is_asks
    /\ Cardinality(obl.leaves) > Depth
    /\ Len(obl.levels) = Depth
    /\ LeafKey(1, 0) \in LeftOut(obl)
    /\ slab.pc_lot_size = 2

\* the record the cache holds at key violates the layout the decoder of
\* provider p assumes
BadLayout(p, key) ==
    /\ p = "cap"
    /\ get(key) # None
    /\ ~DiscriminatorOk(get(key).account)

\* C24: a provider that processes the notification of a watched address
\* whose cached record violates the decoder's layout skips the update: it
\* publishes nothing, goes back to its select! for the next notification, and
\* the value held downstream is unchanged
C24_DecodeErrorSkipped ==
    [][\A p \in Providers :
          (/\ pPc[p] = "proc"
           /\ pPc'[p] # "proc"
           /\ Matches(p, pKey[p].key)
           /\ BadLayout(p, pKey[p].key)) =>
              /\ pPc'[p] = "recv"
              /\ nPub'[p] = nPub[p]
              /\ outBuf'[p] = outBuf[p]
              /\ cypher_user' = cypher_user]_vars

\* provider p is about to call send for the notification in hand
Publishing(p) ==
    /\ pPc[p] = "proc"
    /\ Matches(p, pKey[p].key)
    /\ ~Panics(p, pKey[p].key)

\* C25: a provider whose send fails because its channel has no subscriber
\* left keeps no value for it and goes back to its select!, where it receives
\* the next cache notification as before
C25_NoSubscriberPublish ==
    /\ [][\A p \in Providers :
             (Publishing(p) /\ pPc'[p] # "proc" /\ ~outAlive[p]) =>
                 /\ lastSend'[p] = "Err"
                 /\ pPc'[p] = "recv"
                 /\ outBuf'[p] = outBuf[p]
                 /\ backlog'[p] = backlog[p]]_vars
    /\ [](\A p \in active :
             (lastSend[p] = "Err" /\ pPc[p] = "recv" /\ backlog[p] > 0 /\ ~exited) =>
                 ENABLED ProvRecv(p))

\* a provider has received the next notification after a send that failed
C25_Witness ==
    \E p \in active :
        /\ lastSend[p] = "Err"
        /\ pPc[p] = "proc"
        /\ pKey[p].key \in Watched(p)
        /\ ~outAlive[p]

\* the consumer of provider p takes a value (not the lag error) from the
\* provider's channel in this step
Takes(p) ==
    /\ outBacklog[p] <= ChannelCapacity
    /\ outBacklog'[p] = outBacklog[p] - 1

\* the value it takes
Taken(p) == NextValue(outBuf[p], outBacklog[p])

\* C26: get_user and get_open_orders return their 'not available' error
\* before anything has been received; each step in which a (matching) value
\* is received makes the lookup return that value, and no other step changes
\* what the lookup returns: so it is unavailable exactly until the first
\* value, then always the value received last, never unavailable again
C26_UnavailableUntilFirst ==
    /\ get_user = UserNotAvailable
    /\ get_open_orders = OpenOrdersNotAvailable
    /\ [][/\ IF Takes("cap")
             THEN get_user' = Taken("cap")
             ELSE get_user' = get_user
          /\ IF Takes("oop") /\ Taken("oop").pubkey = open_orders_pk
             THEN get_open_orders' = [OpenOrders |-> Taken("oop").open_orders]
             ELSE get_open_orders' = get_open_orders]_vars

\* the context has received two different values of the user account, or
\* the Handler two of the open orders account, and the lookup returns the
\* second
C26_Witness ==
    \/ /\ nPub["cap"] >= 2
       /\ outBacklog["cap"] = 0
       /\ outBuf["cap"][1] = [CypherUser |-> 1]
       /\ get_user = [CypherUser |-> 2]
    \/ /\ nPub["oop"] >= 2
       /\ outBacklog["oop"] = 0
       /\ outBuf["oop"][1].open_orders = 1
       /\ get_open_orders = [OpenOrders |-> 2]

\* the error value the specification has get_orderbook return
OrderBookNotAvailable == [err |-> "OrderBookNotAvailable"]

\* C27: as long as no order book has been published to the Handler,
\* get_orderbook returns the 'unavailable' error
C27_OrderBookUnavailable ==
    nPub["obp"] = 0 => get_orderbook = OrderBookNotAvailable

\* C28: get_latest_blockhash returns the hash of the last blockhash fetch
\* that succeeded (the default hash before any); a refresh whose blockhash
\* fetch fails changes neither the stored hash nor the stored slot, one whose
\* slot fetch fails does not change the stored slot, both are followed by the
\* sleep, and a refresh only ever starts after a sleep
C28_ChainMetaKeepsLast ==
    /\ [](get_latest_blockhash = fetchedHash)
    /\ [][/\ (/\ cmPc = "hash"
              /\ cmPc' \notin {"slot", "stopped"}
              /\ chainVars' # chainVars) =>
                /\ cmPc' = "sleep"
                /\ recent_blockhash' = recent_blockhash
                /\ cmSlot' = cmSlot
          /\ (/\ cmPc = "slot"
              /\ cmPc' \notin {"slot", "stopped"}
              /\ cmRes' = "SlotErr") =>
                /\ cmPc' = "sleep"
                /\ cmSlot' = cmSlot
          /\ (cmPc # "hash" /\ cmPc' = "hash") => cmPc = "sleep"]_vars

\* a refresh has stored a hash and a slot, and the blockhash fetch of a
\* later refresh has failed: both values are still there
C28_Witness ==
    /\ cmRes = "HashErr"
    /\ cmPc = "sleep"
    /\ get_latest_blockhash = MaxHash
    /\ cmSlot = MaxSlot

\* C29: every insert stores the record it is given, account and slot,
\* whatever the slot of the record it replaces, and changes no other address
C29_NoSlotMonotonicity ==
    [][(aisPc = "insert" /\ aisPc' = "notify") =>
          /\ map'[aisKey'] # None
          /\ map'[aisKey'].slot = respSlot
          /\ map'[aisKey'].account = Last(SkipNone(infos))
          /\ \A a \in Addresses \ {aisKey'} : map'[a] = map[a]]_vars

\* the first response, of slot MaxSlot, gave the records of the bid and of
\* the open orders address; the open orders record has since been replaced
\* by one of a lower slot
C29_Witness ==
    /\ get("bids") # None
    /\ get("oo") # None
    /\ get("bids").ver <= Len(Keys)
    /\ get("bids").slot = MaxSlot
    /\ get("oo").ver > Len(Keys)
    /\ get("oo").slot < MaxSlot

C31_TaggedAndFiltered ==
    /\ [][/\ nPub'["oop"] # nPub["oop"] =>
                /\ lastPub'["oop"].pubkey = pKey["oop"].key
                /\ lastPub'["oop"].open_orders = get(pKey["oop"].key).account.body
                /\ Last(outBuf'["oop"]) = lastPub'["oop"]
          /\ open_orders' # open_orders =>
                /\ Takes("oop")
                /\ Taken("oop").pubkey = open_orders_pk
                /\ open_orders' = [OpenOrders |-> Taken("oop").open_orders]
          /\ orderbook' # orderbook =>
                /\ Takes("obp")
                /\ Taken("obp").market = dex_market_pk]_vars
    /\ [](open_orders # None =>
             /\ open_orders_pk \in Addresses
             /\ \E v \in LedgerValues(open_orders_pk) \ {None} :
                   open_orders = [OpenOrders |-> v.body])

\* the Handler of the second market has received every value published so
\* far, the last one tagged with the open orders address of the first
\* market, and holds no open orders
C31_Witness ==
    /\ hCtx = 2
    /\ nPub["oop"] >= 2
    /\ outBacklog["oop"] = 0
    /\ Last(outBuf["oop"]).pubkey = market_contexts[1].open_orders_pk
    /\ open_orders = None

\* C32: the OrderBook constructed for market m carries m in its market
\* field, so the Handler of market m accepts it
C32_NewCarriesMarket ==
    newBook # None =>
        /\ newBook.book.market = newBook.market
        /\ newBook.market = dex_market_pk => accepts_orderbook(newBook.book)

Present(value) == {j \in 1..Len(value) : value[j] # None}

\* the rank of position j among the inserts of its batch: the positions
\* after it that hold an account are inserted before it
Rank(value, j) == Cardinality({i \in Present(value) : i >= j})

\* C34: when a batch has been processed, the record returned at position j
\* is cached under the j-th address of the batch, wherever the positions
\* without an account are, and the inserts (and their notifications) were
\* made from the last position of the batch to the first
C34_PositionalReverse ==
    BatchInserted =>
        \A j \in Present(resp.value) :
            LET key == Keys[aisFrom + j]
                n == resp.base + Rank(resp.value, j)
            IN /\ get(key) = AccountState(resp.value[j], respSlot, n)
               /\ n <= Len(insLog)
               /\ insLog[n] = key

\* the first batch of a replay cycle is done: its first two positions held
\* an account, the second address was inserted first and the first address
\* right after it
C34_Witness ==
    /\ BatchInserted
    /\ aisPhase = "replay"
    /\ aisFrom = 0
    /\ {1, 2} \subseteq Present(resp.value)
    /\ get(Keys[1]).ver = get(Keys[2]).ver + 1
    /\ insLog[get(Keys[2]).ver] = Keys[2]
    /\ insLog[get(Keys[1]).ver] = Keys[1]

\* the addresses present in the cache
Cached == {a \in DOMAIN map : get(a) # None}

\* C35: no step removes an address from the cache, whatever happens to its
\* remote account, and every address in the cache, inserted or being
\* inserted, is one of the watch-list
C35_OnlyGrows ==
    /\ [][\A a \in Cached : map'[a] # None]_vars
    /\ [](/\ Cached \subseteq {Keys[i] : i \in 1..Len(Keys)}
          /\ \A i \in 1..Len(insLog) : insLog[i] \in Cached
          /\ aisPc = "notify" => aisKey \in Cached)

\* the remote account of a cached address has disappeared and a whole cycle
\* without error has passed since: the address is still cached, with a
\* record older than those of the other addresses
C35_Witness ==
    /\ aisPc = "sleep"
    /\ clean
    /\ remote["bids"] = None
    /\ "bids" \in Cached
    /\ get("bids").ver < get("oo").ver
    /\ get("bids").ver < get("user").ver

\* the addresses of the batch at `from` that have a remote account, from
\* position j down to the first
RECURSIVE Down(_, _)
Down(from, j) ==
    IF j = 0 THEN <<>>
    ELSE (IF remote[Keys[from + j]] # None THEN <<Keys[from + j]>> ELSE <<>>)
         \o Down(from, j - 1)

\* the inserts of one pass over the watch-list from index `from` on, all
\* batches succeeding, over the ledger as it is
RECURSIVE PassOrder(_)
PassOrder(from) ==
    IF from >= Len(Keys) THEN <<>>
    ELSE Down(from, BatchTo(from) - from) \o PassOrder(NextFrom(from))

\* a step in which provider p has processed the notification of an address
\* it watches has published for it
Republishes(p) ==
    (pPc[p] = "proc" /\ pPc'[p] # "proc" /\ pKey[p].key \in Watched(p)) =>
        nPub'[p] = nPub[p] + 1

\* every insert sends its notification, the cycles that succeed insert each
\* address that has a remote account once, unchanged records included
NotifiesEveryInsert ==
    /\ [][(aisPc = "notify" /\ aisPc' # "notify") =>
             /\ lastErr' = "Ok"
             /\ chanBuf' = Retain(chanBuf, Notification(aisKey))
             /\ \A p \in Providers : backlog'[p] = Behind(backlog[p])]_vars
    /\ []((aisPc = "sleep" /\ clean) =>
             LET pass == PassOrder(0)
             IN /\ Len(insLog) >= Len(pass)
                /\ SubSeq(insLog, Len(insLog) - Len(pass) + 1, Len(insLog)) = pass)
    /\ []((aisPc = "sleep" /\ nChg = 0 /\ nErr = 0) =>
             LET pass == PassOrder(0)
             IN /\ Len(insLog) = (cycles + 1) * Len(pass)
                /\ \A i \in 1..Len(insLog) :
                      insLog[i] = pass[((i - 1) % Len(pass)) + 1])

\* C36: the cache notifies on every insert, changed record or not: a replay
\* cycle whose batches all succeed issues exactly one notification per
\* watched address that has a remote account, even over an unchanged ledger,
\* and each provider republishes for every such notification of an address
\* it watches
C36_NotifyAndRepublish ==
    /\ NotifiesEveryInsert
    /\ [][\A p \in Providers : Republishes(p)]_vars

\* every record of the response in hand has been inserted
Whole == resp # None => nIns = resp.base + Returned(resp.value)

\* C37: the shutdown signal takes the poll service out of its loop only
\* while it waits for an RPC response or sleeps, with no entry of a response
\* left to insert; once it has stopped nothing is inserted any more, so every
\* batch has been applied as a whole or not at all
C37_BatchAtomic ==
    /\ [][(aisPc # "stopped" /\ aisPc' = "stopped") =>
             /\ aisPc \in {"fetch", "sleep"}
             /\ infos = <<>>
             /\ Whole]_vars
    /\ [][aisPc = "stopped" =>
             /\ aisPc' = "stopped"
             /\ map' = map
             /\ chanBuf' = chanBuf]_vars
    /\ [](aisPc = "stopped" => Whole)

\* the signal was sent while a batch fetch was in flight; its response came
\* back with two accounts, both were inserted, and then the service stopped
C37_Witness ==
    /\ aisPc = "stopped"
    /\ afterStop = 1
    /\ Returned(resp.value) = 2
    /\ nIns = resp.base + 2
    /\ lastErr = "Ok"

\* C38: once the signal has been broadcast it stays available to every
\* background loop until that loop has taken it: whenever a loop is at its
\* select! (never run yet, back from an update, or waiting) its shutdown arm
\* is ready, a loop that is processing an update comes back to its select!,
\* and the arm takes the loop out
C38_SignalNeverMissed ==
    /\ [](shutdown =>
             /\ \A p \in active : pPc[p] = "recv" => ENABLED ProvShutdown(p)
             /\ ctxPc = "recv" => ENABLED CtxShutdown
             /\ hPc = "recv" => ENABLED HandlerShutdown
             /\ (aisPhase = "replay" /\ aisPc \in await_points) => ENABLED AisShutdown
             /\ cmPc \in {"hash", "slot", "sleep"} => ENABLED CmShutdown)
    /\ [][/\ shutdown => shutdown'
          /\ \A p \in active :
                (shutdown /\ pPc[p] = "proc") => pPc'[p] \in {"proc", "recv", "panicked"}
          /\ \A p \in active :
                (pPc[p] = "stopped" \/ pPc'[p] # "stopped") \/ (shutdown /\ pPc[p] = "recv")
          /\ (hPc' # hPc) => (shutdown /\ hPc' = "stopped")
          /\ (ctxPc' # ctxPc) => (shutdown /\ ctxPc' = "stopped")]_vars

\* the signal was sent before a provider had received anything: every loop
\* that is polled has stopped, that provider with its notifications unread
C38_Witness ==
    /\ AllStopped
    /\ \E p \in active :
          /\ ~lagged[p]
          /\ rcvLog[p] = <<>>
          /\ backlog[p] > 0
    /\ afterStop = 1

====
